---- MODULE Spec2Model ----
(***************************************************************************)
(* A model of src/src/ai/learning.py: the Deep Q-Learning agent of the     *)
(* snake game (DeepQNetwork, DeepQLearningModel).                           *)
(*                                                                         *)
(* Numbers.  Q-values, rewards and targets are fixed-point integers in     *)
(* units of 1/GammaDen, so that gamma = GammaNum/GammaDen multiplies with  *)
(* one rounding.  Epsilon, its floor, its decay factor and the draws of    *)
(* random.random() are fixed-point integers in units of 1/EpsOne.  The     *)
(* quotients of get_state are kept as exact fractions <<num, den>>.        *)
(*                                                                         *)
(* Network.  The parameters of the Q-network are represented by the table  *)
(* of the Q-vectors they produce on the finitely many state vectors the    *)
(* model feeds the network; param.grad has the same shape.                 *)
(***************************************************************************)
EXTENDS Integers, Sequences, FiniteSets, TLC

VARIABLES
    max_memory,     \* deque(maxlen=max_memory)
    batch_size,     \* self.batch_size
    memory,         \* self.memory, oldest first
    epsilon,        \* self.epsilon
    epsilon_min,    \* self.epsilon_min
    epsilon_decay,  \* self.epsilon_decay
    params,         \* self.model's parameters
    grad,           \* the parameters' .grad buffers
    training,       \* self.model.training
    files,          \* the file system: path -> saved state_dict, or NoFile
    game,           \* the snake, food and board handed to get_state / get_reward
    ret,            \* the last operation, its arguments and what it returned
    hist,           \* history (SpecRemember): the transitions handed to remember
    saved,          \* history: path -> the parameters save_model serialized there
    steps,          \* history: number of optimizer steps taken
    calls           \* history (Spec): number of calls that changed a field or a file

vars == <<max_memory, batch_size, memory, epsilon, epsilon_min, epsilon_decay,
          params, grad, training, files, game, ret, hist, saved, steps, calls>>

\* The fields of a DeepQLearningModel instance that an operation can change.
agent == <<memory, epsilon, params, grad, training>>

\* The constructor arguments kept as fields; no method assigns them.
config == <<max_memory, batch_size, epsilon_min, epsilon_decay>>

-----------------------------------------------------------------------------
\* Bounds of the model.

MaxMemory == 3
MaxInserts == 5
MaxCalls == 3
NumStates == 2
ActionSpaceSize == 2
MaxTrain == 2
EpsOne == 1000
MaxWidth == 3
MaxHeight == 2
MaxBody == 2

\* gamma=0.99
GammaNum == 99
GammaDen == 100

\* Python's None, and a path at which no file exists; a value that is present
\* is the one-element sequence <<v>>.
None == <<>>
NoFile == <<>>

States == 0 .. (NumStates - 1)
Actions == 0 .. (ActionSpaceSize - 1)
Rewards == {-10, -1, 1, 10}
Paths == {"model.pth"}

Max2(a, b) == IF a >= b THEN a ELSE b

Abs(x) == IF x < 0 THEN -x ELSE x

Sign(x) == IF x > 0 THEN 1 ELSE IF x < 0 THEN -1 ELSE 0

\* A stored transition (state, action, reward, next_state, done).
Transition(s, a, r, s2, d) ==
    [state |-> s, action |-> a, reward |-> r, next_state |-> s2, done |-> d]

Transitions ==
    [state : States, action : Actions, reward : Rewards,
     next_state : States, done : BOOLEAN]

\* The transitions the game loop hands to remember and train_short_memory:
\* an episode ends (done) exactly on the -10 move.
Experience ==
    {Transition(0, 0, 1, 1, FALSE),
     Transition(1, ActionSpaceSize - 1, -10, NumStates - 1, TRUE),
     Transition(NumStates - 1, 0, 10, 0, FALSE)}

-----------------------------------------------------------------------------
\* The Q-network.

\* DeepQNetwork.forward: the Q-vector of state s under parameters p.
Forward(p, s) == p[s]

\* torch.max(q): the largest Q-value.
MaxQ(q) == CHOOSE m \in {q[a] : a \in Actions} : \A a \in Actions : q[a] <= m

\* torch.argmax(q).item(): the first index of the largest Q-value.
ArgMax(q) ==
    CHOOSE a \in Actions :
        /\ q[a] = MaxQ(q)
        /\ \A b \in Actions : b < a => q[b] < q[a]

\* The parameters nn.Linear's random initialisation may produce.
InitParams ==
    {[s \in States |-> [a \in Actions |-> ((s + 2 * a + k) % 3) * GammaDen]] :
        k \in 0 .. 1}

ZeroGrad == [s \in States |-> [a \in Actions |-> 0]]

\* torch.tensor([reward], dtype=torch.float) in the units of the Q-values.
RewardTensor(r) == r * GammaDen

\* self.gamma * x
GammaTimes(x) == (GammaNum * x) \div GammaDen

\* ~ on a 0/1 integer tensor: the bitwise complement.
NotDoneBitwise(d) == IF d THEN -2 ELSE -1

\* (~dones) as the factor of a product: 1 for False, 0 for True.
NotDone(d) == IF d THEN 0 ELSE 1

-----------------------------------------------------------------------------
\* The two update rules.

\* train_short_memory: the value written at target[0, action].
TargetShort(p, tr) ==
    IF tr.done
    THEN RewardTensor(tr.reward)
    ELSE RewardTensor(tr.reward) + GammaTimes(MaxQ(Forward(p, tr.next_state)))

\* train_short_memory: target = q_values.clone() with the entry at action
\* overwritten.
TargetVector(p, tr) ==
    [Forward(p, tr.state) EXCEPT ![tr.action] = TargetShort(p, tr)]

\* train_long_memory: the target of one transition of the batch,
\* rewards + self.gamma * max_next_q_values * (~dones).
TargetLong(p, tr) ==
    RewardTensor(tr.reward)
        + GammaTimes(MaxQ(Forward(p, tr.next_state))) * NotDone(tr.done)

\* Gradients are kept in units of 2 / (ActionSpaceSize * batch_size), the
\* common denominator of the two mean-squared-error losses.

\* train_short_memory: the gradient loss.backward() adds, where
\* loss = MSELoss(q_values, target) is the mean over the action_space_size
\* entries of the Q-vector of tr.state.
LossGradShort(p, tr, bs) ==
    [s \in States |->
        [a \in Actions |->
            IF s = tr.state
            THEN bs * (Forward(p, s)[a] - TargetVector(p, tr)[a])
            ELSE 0]]

RECURSIVE SumErr(_, _, _, _, _)
\* The sum over the batch entries whose (state, action) is (s, a) of
\* q_values - target.
SumErr(p, mem, batch, s, a) ==
    IF batch = {}
    THEN 0
    ELSE LET k == CHOOSE i \in batch : TRUE
             tr == mem[k]
             e == IF tr.state = s /\ tr.action = a
                  THEN Forward(p, tr.state)[tr.action] - TargetLong(p, tr)
                  ELSE 0
         IN  e + SumErr(p, mem, batch \ {k}, s, a)

\* train_long_memory: the gradient loss.backward() adds, where
\* loss = MSELoss(q_values.gather(1, actions), target) is the mean over the
\* batch.
LossGradLong(p, mem, batch) ==
    [s \in States |->
        [a \in Actions |-> ActionSpaceSize * SumErr(p, mem, batch, s, a)]]

\* loss.backward() accumulates into the .grad buffers.
Accumulate(g, dg) ==
    [s \in States |-> [a \in Actions |-> g[s][a] + dg[s][a]]]

\* self.optimizer.step(): every parameter moves one learning-rate quantum
\* against the sign of its .grad (Adam's normalised step).
OptimizerStep(p, g) ==
    [s \in States |-> [a \in Actions |-> p[s][a] - Sign(g[s][a])]]

\* random.sample(self.memory, k): k distinct positions of the deque.
Sample(mem, k) ==
    {b \in SUBSET (1 .. Len(mem)) : Cardinality(b) = k}

\* A deque that evicts one insertion too late.
DequeAppendLate(mem, maxlen, x) ==
    IF Len(mem) <= maxlen
    THEN Append(mem, x)
    ELSE Append(Tail(mem), x)

\* deque.append under maxlen: the oldest entry is dropped when full.
DequeAppend(mem, maxlen, x) ==
    IF Len(mem) < maxlen
    THEN Append(mem, x)
    ELSE Append(Tail(mem), x)

\* self.epsilon * self.epsilon_decay, rounded to the nearest representable
\* value.
EpsTimes(e, d) == (e * d + EpsOne \div 2) \div EpsOne

\* A decay without the floor.
DecayedEpsilonNoFloor(e, d, m) == EpsTimes(e, d)

\* decay_epsilon: max(self.epsilon * self.epsilon_decay, self.epsilon_min)
DecayedEpsilon(e, d, m) == Max2(EpsTimes(e, d), m)

\* The default taken whenever the argument is falsy: epsilon or self.epsilon.
EffectiveEpsilonFalsy(arg, eps) ==
    IF arg = None \/ arg = <<0>> THEN eps ELSE arg[1]

\* choose_action: the epsilon the draw is compared with.
EffectiveEpsilon(arg, eps) == IF arg = None THEN eps ELSE arg[1]

\* The draws of random.random(), in [0, 1).
Draws == {0, EpsOne \div 2, EpsOne - 1}

\* The explicit epsilon arguments callers pass, and None for the default.
EpsilonArgs == {None, <<0>>, <<EpsOne \div 2>>, <<EpsOne>>}

\* model.state_dict(): the parameter tensors keyed by name.
StateDict(p) == {<<<<"q", s>>, p[s]>> : s \in States}

\* A load that matches the tensors to the parameters in the wrong order.
LoadStateDictShifted(sd) ==
    [s \in States |->
        (CHOOSE kv \in sd : kv[1] = <<"q", (s + 1) % NumStates>>)[2]]

\* model.load_state_dict(sd): every parameter takes the tensor of its name.
LoadStateDict(sd) ==
    [s \in States |-> (CHOOSE kv \in sd : kv[1] = <<"q", s>>)[2]]

-----------------------------------------------------------------------------
\* The feature extractor and the reward function.

Directions == {"UP", "DOWN", "LEFT", "RIGHT"}

\* Board.is_within_bounds((x, y))
is_within_bounds(board, pos) ==
    /\ 0 <= pos[1] /\ pos[1] < board.width
    /\ 0 <= pos[2] /\ pos[2] < board.height

\* The cells of a board.
Cells(board) == (0 .. (board.width - 1)) \X (0 .. (board.height - 1))

\* The cells of a board and the ring of cells around it.
CellsAround(board) == (-1 .. board.width) \X (-1 .. board.height)

\* Python's true division a / b, kept exact.
TrueDiv(a, b) == <<a, b>>

\* int(b) of a bool
BoolInt(b) == IF b THEN 1 ELSE 0

RECURSIVE BodyScanInclusive(_, _, _, _)
\* A body scan whose comparisons are not strict: a segment on the head's own
\* cell counts as above it.
BodyScanInclusive(body, i, head, flags) ==
    IF i > Len(body)
    THEN flags
    ELSE LET segment == body[i]
             next == IF segment[1] = head[1] /\ segment[2] <= head[2]
                         THEN [flags EXCEPT ![1] = 1]
                     ELSE IF segment[1] = head[1] /\ segment[2] >= head[2]
                         THEN [flags EXCEPT ![2] = 1]
                     ELSE IF segment[2] = head[2] /\ segment[1] <= head[1]
                         THEN [flags EXCEPT ![3] = 1]
                     ELSE IF segment[2] = head[2] /\ segment[1] >= head[1]
                         THEN [flags EXCEPT ![4] = 1]
                     ELSE flags
         IN  BodyScanInclusive(body, i + 1, head, next)

RECURSIVE BodyScan(_, _, _, _)
\* get_state: the loop over snake.body from segment i on; flags is
\* <<body_up, body_down, body_left, body_right>> so far.
BodyScan(body, i, head, flags) ==
    IF i > Len(body)
    THEN flags
    ELSE LET segment == body[i]
             next == IF segment[1] = head[1] /\ segment[2] < head[2]
                         THEN [flags EXCEPT ![1] = 1]
                     ELSE IF segment[1] = head[1] /\ segment[2] > head[2]
                         THEN [flags EXCEPT ![2] = 1]
                     ELSE IF segment[2] = head[2] /\ segment[1] < head[1]
                         THEN [flags EXCEPT ![3] = 1]
                     ELSE IF segment[2] = head[2] /\ segment[1] > head[1]
                         THEN [flags EXCEPT ![4] = 1]
                     ELSE flags
         IN  BodyScan(body, i + 1, head, next)

\* DeepQLearningModel.get_state
get_state(snake, food, board) ==
    LET head_x == snake.head[1]
        head_y == snake.head[2]
        fruit_x == food[1]
        fruit_y == food[2]
        rel_food_x == TrueDiv(fruit_x - head_x, board.width)
        rel_food_y == TrueDiv(fruit_y - head_y, board.height)
        dir_up == BoolInt(snake.direction = "UP")
        dir_down == BoolInt(snake.direction = "DOWN")
        dir_left == BoolInt(snake.direction = "LEFT")
        dir_right == BoolInt(snake.direction = "RIGHT")
        dist_wall_up == TrueDiv(head_y, board.height)
        dist_wall_down == TrueDiv(board.height - head_y, board.height)
        dist_wall_left == TrueDiv(head_x, board.width)
        dist_wall_right == TrueDiv(board.width - head_x, board.width)
        body == BodyScan(snake.body, 1, snake.head, <<0, 0, 0, 0>>)
    IN  <<rel_food_x, rel_food_y,
          dir_up, dir_down, dir_left, dir_right,
          dist_wall_up, dist_wall_down, dist_wall_left, dist_wall_right,
          body[1], body[2], body[3], body[4]>>

\* A reward function that looks for the food before it looks for death.
get_rewardFoodFirst(snake, food, board) ==
    IF snake.next = food
    THEN 10
    ELSE IF ~is_within_bounds(board, snake.next) \/ snake.collided
    THEN -10
    ELSE IF Abs(snake.next[1] - food[1]) + Abs(snake.next[2] - food[2])
            < Abs(snake.head[1] - food[1]) + Abs(snake.head[2] - food[2])
    THEN 1
    ELSE -1

\* DeepQLearningModel.get_reward
get_reward(snake, food, board) ==
    LET fruit_x == food[1]
        fruit_y == food[2]
        next_head_x == snake.next[1]
        next_head_y == snake.next[2]
        dist_to_food_before ==
            Abs(snake.head[1] - fruit_x) + Abs(snake.head[2] - fruit_y)
        dist_to_food_after ==
            Abs(next_head_x - fruit_x) + Abs(next_head_y - fruit_y)
    IN  IF ~is_within_bounds(board, <<next_head_x, next_head_y>>)
           \/ snake.collided
        THEN -10
        ELSE IF <<next_head_x, next_head_y>> = <<fruit_x, fruit_y>>
        THEN 10
        ELSE IF dist_to_food_after < dist_to_food_before
        THEN 1
        ELSE -1

\* A snake as the agent sees it: head_position(), direction, body,
\* get_next_head_position(), has_collision().
Snake(head, direction, body, next, collided) ==
    [head |-> head, direction |-> direction, body |-> body,
     next |-> next, collided |-> collided]

Boards == [width : 1 .. MaxWidth, height : 1 .. MaxHeight]

RECURSIVE SeqsUpTo(_, _)
\* The sequences over S of length at most n.
SeqsUpTo(S, n) ==
    IF n = 0
    THEN {<<>>}
    ELSE LET shorter == SeqsUpTo(S, n - 1)
         IN  shorter \cup {Append(q, x) : q \in shorter, x \in S}

\* The game position of the agent's own runs.
SampleGame ==
    [snake |-> Snake(<<0, 0>>, "RIGHT", <<<<0, 0>>>>, <<1, 0>>, FALSE),
     food |-> <<1, 0>>,
     board |-> [width |-> 2, height |-> 1]]

-----------------------------------------------------------------------------
\* The operations of DeepQLearningModel.  Each states what it does to the
\* agent's fields, to the file system and what it returns (ret).

\* DeepQLearningModel.decay_epsilon
decay_epsilon ==
    /\ epsilon' = DecayedEpsilon(epsilon, epsilon_decay, epsilon_min)
    /\ ret' = [op |-> "decay_epsilon"]
    /\ UNCHANGED <<memory, params, grad, training, files>>

\* DeepQLearningModel.choose_action(state, epsilon=arg), where draw is the
\* value of random.random() and rnd that of random.randint.
choose_action(state, arg, draw, rnd) ==
    LET eps == EffectiveEpsilon(arg, epsilon)
        explore == draw < eps
        q_values == Forward(params, state)
    IN  /\ ret' = [op |-> "choose_action", state |-> state, arg |-> arg,
                   draw |-> draw, rnd |-> rnd, explored |-> explore,
                   value |-> IF explore THEN rnd ELSE ArgMax(q_values)]
        /\ UNCHANGED <<agent, files>>

\* DeepQLearningModel.remember
remember(tr) ==
    /\ memory' = DequeAppend(memory, max_memory, tr)
    /\ ret' = [op |-> "remember", tr |-> tr]
    /\ UNCHANGED <<epsilon, params, grad, training, files>>

\* self.optimizer.zero_grad()
zero_grad(g) == ZeroGrad

\* DeepQLearningModel.train_short_memory
train_short_memory(tr) ==
    LET target == TargetVector(params, tr)
        loss_grad == LossGradShort(params, tr, batch_size)
        g == Accumulate(zero_grad(grad), loss_grad)
    IN  /\ grad' = g
        /\ params' = OptimizerStep(params, g)
        /\ ret' = [op |-> "train_short_memory", tr |-> tr, trained |-> TRUE,
                   target |-> target, loss_grad |-> loss_grad, applied |-> g]
        /\ UNCHANGED <<memory, epsilon, training, files>>

\* An early return that is also taken with exactly batch_size transitions.
TooFewMemoriesOrJustEnough(mem, bs) == Len(mem) <= bs

\* train_long_memory: the early return.
TooFewMemories(mem, bs) == Len(mem) < bs

\* DeepQLearningModel.train_long_memory
train_long_memory ==
    IF TooFewMemories(memory, batch_size)
    THEN /\ ret' = [op |-> "train_long_memory", trained |-> FALSE]
         /\ UNCHANGED <<agent, files>>
    ELSE \E mini_batch \in Sample(memory, batch_size) :
            LET loss_grad == LossGradLong(params, memory, mini_batch)
                g == Accumulate(grad, loss_grad)
            IN  /\ grad' = g
                /\ params' = OptimizerStep(params, g)
                /\ ret' = [op |-> "train_long_memory", trained |-> TRUE,
                           mini_batch |-> mini_batch,
                           loss_grad |-> loss_grad, applied |-> g]
                /\ UNCHANGED <<memory, epsilon, training, files>>

\* DeepQLearningModel.save_model
save_model(filename) ==
    /\ files' = [files EXCEPT ![filename] = <<StateDict(params)>>]
    /\ ret' = [op |-> "save_model", filename |-> filename]
    /\ UNCHANGED agent

\* A load that re-initialises the network when it finds no file.
load_modelStartsFresh(filename) ==
    IF files[filename] # NoFile
    THEN /\ params' = LoadStateDict(files[filename][1])
         /\ training' = FALSE
         /\ ret' = [op |-> "load_model", filename |-> filename,
                    found |-> TRUE, raised |-> FALSE,
                    printed |-> "Model loaded successfully."]
         /\ UNCHANGED <<memory, epsilon, grad, files>>
    ELSE /\ params' \in InitParams
         /\ ret' = [op |-> "load_model", filename |-> filename,
                    found |-> FALSE, raised |-> FALSE,
                    printed |-> "No saved model found. Starting fresh."]
         /\ UNCHANGED <<memory, epsilon, grad, training, files>>

\* DeepQLearningModel.load_model
load_model(filename) ==
    IF files[filename] # NoFile
    THEN /\ params' = LoadStateDict(files[filename][1])
         /\ training' = FALSE
         /\ ret' = [op |-> "load_model", filename |-> filename,
                    found |-> TRUE, raised |-> FALSE,
                    printed |-> "Model loaded successfully."]
         /\ UNCHANGED <<memory, epsilon, grad, files>>
    ELSE /\ ret' = [op |-> "load_model", filename |-> filename,
                    found |-> FALSE, raised |-> FALSE,
                    printed |-> "No saved model found. Starting fresh."]
         /\ UNCHANGED <<agent, files>>

\* A call of get_state on the current game position.
CallGetState ==
    /\ ret' = [op |-> "get_state",
               value |-> get_state(game.snake, game.food, game.board)]
    /\ UNCHANGED <<agent, files>>

\* A call of get_reward on the current game position.
CallGetReward ==
    /\ ret' = [op |-> "get_reward",
               value |-> get_reward(game.snake, game.food, game.board)]
    /\ UNCHANGED <<agent, files>>

-----------------------------------------------------------------------------
\* Construction.

\* DeepQLearningModel.__init__ with the given max_memory, batch_size,
\* epsilon_start, epsilon_end and epsilon_decay, in a file system without
\* saved models.
Construct(mm, bs, eps_start, eps_end, eps_decay) ==
    /\ max_memory = mm
    /\ batch_size = bs
    /\ memory = <<>>
    /\ epsilon = eps_start
    /\ epsilon_min = eps_end
    /\ epsilon_decay = eps_decay
    /\ params \in InitParams
    /\ grad = ZeroGrad
    /\ training = TRUE
    /\ files = [f \in Paths |-> NoFile]
    /\ ret = [op |-> "__init__"]
    /\ hist = <<>>
    /\ saved = [f \in Paths |-> None]
    /\ steps = 0
    /\ calls = 0

\* The exploration schedules agents are built with: <<epsilon_start,
\* epsilon_end, epsilon_decay>>; the first is the default 1.0, 0.01, 0.995.
Schedules ==
    {<<EpsOne, EpsOne \div 100, (995 * EpsOne) \div 1000>>,
     <<EpsOne, 0, EpsOne \div 2>>,
     <<EpsOne, EpsOne, EpsOne \div 2>>,
     <<EpsOne \div 2, EpsOne \div 4, EpsOne>>,
     <<EpsOne \div 2, EpsOne \div 10, (9 * EpsOne) \div 10>>,
     <<0, 0, EpsOne \div 2>>}

-----------------------------------------------------------------------------
\* The agent in use: every operation, in any order, up to MaxCalls calls
\* that change a field or a file.

Init ==
    /\ Construct(2, 2, EpsOne, EpsOne \div 2, EpsOne \div 2)
    /\ game = SampleGame

Next ==
    \/ /\ calls < MaxCalls
       /\ decay_epsilon
       /\ calls' = calls + 1
       /\ UNCHANGED <<config, game, hist, saved, steps>>
    \/ /\ \E s \in States, draw \in {0, EpsOne - 1}, rnd \in Actions :
             choose_action(s, None, draw, rnd)
       /\ UNCHANGED <<config, game, hist, saved, steps, calls>>
    \/ /\ calls < MaxCalls
       /\ \E tr \in Experience : remember(tr)
       /\ calls' = calls + 1
       /\ UNCHANGED <<config, game, hist, saved, steps>>
    \/ /\ calls < MaxCalls
       /\ \E tr \in Experience : train_short_memory(tr)
       /\ steps' = steps + 1
       /\ calls' = calls + 1
       /\ UNCHANGED <<config, game, hist, saved>>
    \/ /\ ~TooFewMemories(memory, batch_size) => calls < MaxCalls
       /\ train_long_memory
       /\ steps' = IF ret'.trained THEN steps + 1 ELSE steps
       /\ calls' = IF ret'.trained THEN calls + 1 ELSE calls
       /\ UNCHANGED <<config, game, hist, saved>>
    \/ /\ calls < MaxCalls
       /\ \E f \in Paths : save_model(f) /\ saved' = [saved EXCEPT ![f] = <<params>>]
       /\ calls' = calls + 1
       /\ UNCHANGED <<config, game, hist, steps>>
    \/ /\ \E f \in Paths : files[f] # NoFile => calls < MaxCalls
       /\ \E f \in Paths : load_model(f)
       /\ calls' = IF ret'.found THEN calls + 1 ELSE calls
       /\ UNCHANGED <<config, game, hist, saved, steps>>
    \/ /\ CallGetState
       /\ UNCHANGED <<config, game, hist, saved, steps, calls>>
    \/ /\ CallGetReward
       /\ UNCHANGED <<config, game, hist, saved, steps, calls>>

Spec == Init /\ [][Next]_vars

-----------------------------------------------------------------------------
\* The replay memory alone: remember, up to MaxInserts times, on agents of
\* every capacity up to MaxMemory.

InitRemember ==
    /\ \E mm \in 1 .. MaxMemory :
          Construct(mm, 2, EpsOne, EpsOne \div 2, EpsOne \div 2)
    /\ game = SampleGame

NextRemember ==
    /\ Len(hist) < MaxInserts
    /\ \E tr \in Experience : remember(tr) /\ hist' = Append(hist, tr)
    /\ UNCHANGED <<config, game, saved, steps, calls>>

SpecRemember == InitRemember /\ [][NextRemember]_vars

-----------------------------------------------------------------------------
\* The exploration schedule alone: decay_epsilon on agents of every schedule.

InitEpsilon ==
    /\ \E sch \in Schedules : Construct(2, 2, sch[1], sch[2], sch[3])
    /\ game = SampleGame

NextEpsilon ==
    /\ decay_epsilon
    /\ UNCHANGED <<config, game, hist, saved, steps, calls>>

SpecEpsilon == InitEpsilon /\ [][NextEpsilon]_vars

-----------------------------------------------------------------------------
\* Action selection: choose_action on every state, explicit epsilon, draw and
\* random index, between calls of decay_epsilon.

InitAct ==
    /\ Construct(2, 2, EpsOne, EpsOne \div 4, EpsOne \div 2)
    /\ game = SampleGame

NextAct ==
    \/ /\ \E s \in States, arg \in EpsilonArgs, draw \in Draws, rnd \in Actions :
             choose_action(s, arg, draw, rnd)
       /\ UNCHANGED <<config, game, hist, saved, steps, calls>>
    \/ /\ decay_epsilon
       /\ UNCHANGED <<config, game, hist, saved, steps, calls>>

SpecAct == InitAct /\ [][NextAct]_vars

-----------------------------------------------------------------------------
\* Training: remember and the two training routines, up to MaxTrain optimizer
\* steps.

NextTrain ==
    \/ /\ \E tr \in Experience : remember(tr)
       /\ UNCHANGED <<config, game, hist, saved, steps, calls>>
    \/ /\ steps < MaxTrain
       /\ \E tr \in Experience : train_short_memory(tr)
       /\ steps' = steps + 1
       /\ UNCHANGED <<config, game, hist, saved, calls>>
    \/ /\ ~TooFewMemories(memory, batch_size) => steps < MaxTrain
       /\ train_long_memory
       /\ steps' = IF ret'.trained THEN steps + 1 ELSE steps
       /\ UNCHANGED <<config, game, hist, saved, calls>>

SpecTrain == Init /\ [][NextTrain]_vars

-----------------------------------------------------------------------------
\* Persistence: save_model and load_model between training steps, and the
\* greedy choice of the agent.

NextPersist ==
    \/ /\ steps < MaxTrain
       /\ \E tr \in Experience : train_short_memory(tr)
       /\ steps' = steps + 1
       /\ UNCHANGED <<config, game, hist, saved, calls>>
    \/ /\ \E f \in Paths : save_model(f) /\ saved' = [saved EXCEPT ![f] = <<params>>]
       /\ UNCHANGED <<config, game, hist, steps, calls>>
    \/ /\ \E f \in Paths : load_model(f)
       /\ UNCHANGED <<config, game, hist, saved, steps, calls>>
    \/ /\ \E s \in States, rnd \in Actions :
             choose_action(s, <<0>>, 0, rnd)
       /\ UNCHANGED <<config, game, hist, saved, steps, calls>>

SpecPersist == Init /\ [][NextPersist]_vars

-----------------------------------------------------------------------------
\* The feature extractor and the reward function on every input.

InitState ==
    /\ Construct(2, 2, EpsOne, EpsOne \div 2, EpsOne \div 2)
    /\ params = CHOOSE p \in InitParams : TRUE
    /\ \E bd \in Boards, d \in Directions :
          \E h \in Cells(bd), f \in Cells(bd), b \in SeqsUpTo(Cells(bd), MaxBody) :
             game = [snake |-> Snake(h, d, b, h, FALSE), food |-> f, board |-> bd]

NextState ==
    /\ CallGetState
    /\ UNCHANGED <<config, game, hist, saved, steps, calls>>

SpecState == InitState /\ [][NextState]_vars

InitReward ==
    /\ Construct(2, 2, EpsOne, EpsOne \div 2, EpsOne \div 2)
    /\ params = CHOOSE p \in InitParams : TRUE
    /\ \E bd \in Boards, c \in BOOLEAN :
          \E h \in Cells(bd), f \in Cells(bd), n \in CellsAround(bd) :
             game = [snake |-> Snake(h, "UP", <<h>>, n, c), food |-> f, board |-> bd]

NextReward ==
    /\ CallGetReward
    /\ UNCHANGED <<config, game, hist, saved, steps, calls>>

SpecReward == InitReward /\ [][NextReward]_vars

-----------------------------------------------------------------------------
\* Replay memory.

\* C1: the replay memory never holds more than max_memory transitions and is
\* always the most recent min(n, max_memory) of the n transitions handed to
\* remember, in insertion order: once full, each remember drops exactly the
\* oldest and adds the new one as newest, so after max_memory + 1 insertions
\* the first inserted is gone and the last is the newest entry.
C1_MemoryIsBoundedFifo ==
    LET n == Len(hist)
        k == IF n < max_memory THEN n ELSE max_memory
    IN  /\ Len(memory) <= max_memory
        /\ memory = SubSeq(hist, n - k + 1, n)
        /\ ret.op = "remember" => memory[Len(memory)] = ret.tr

\* A full memory has just evicted its first transition, which differs from
\* every transition it now holds.
C1_Evicted ==
    /\ ret.op = "remember"
    /\ max_memory >= 2
    /\ Len(hist) = max_memory + 1
    /\ Len(memory) = max_memory
    /\ \A i \in 1 .. Len(memory) : memory[i] # hist[1]

-----------------------------------------------------------------------------
\* Exploration rate.

\* C2: no call of decay_epsilon raises epsilon, and epsilon is never below
\* epsilon_min.
C2_EpsilonDecays ==
    /\ [][epsilon' <= epsilon]_vars
    /\ [](epsilon >= epsilon_min)

\* A call of decay_epsilon has been held at the floor: the product alone
\* would be below epsilon_min.
C2_FloorApplied ==
    /\ ret.op = "decay_epsilon"
    /\ epsilon = epsilon_min
    /\ epsilon_min > 0
    /\ EpsTimes(epsilon, epsilon_decay) < epsilon_min

-----------------------------------------------------------------------------
\* Reward.

\* C3: get_reward returns the value of the first case that applies, in this
\* order: -10 when the next head position is off the board or the snake has
\* collided, whatever the food; else 10 when the next head position is the
\* food; else 1 when the Manhattan distance to the food shrinks strictly;
\* else -1, ties included.  The call changes nothing of the agent.
C3_RewardPrecedence ==
    /\ [](ret.op = "get_reward" =>
            LET head == game.snake.head
                next == game.snake.next
                food == game.food
                dead == \/ next[1] < 0 \/ next[1] >= game.board.width
                        \/ next[2] < 0 \/ next[2] >= game.board.height
                        \/ game.snake.collided
                eaten == next = food
                before == Abs(head[1] - food[1]) + Abs(head[2] - food[2])
                after == Abs(next[1] - food[1]) + Abs(next[2] - food[2])
            IN  /\ dead => ret.value = -10
                /\ ~dead /\ eaten => ret.value = 10
                /\ ~dead /\ ~eaten /\ after < before => ret.value = 1
                /\ ~dead /\ ~eaten /\ after >= before => ret.value = -1)
    /\ [][ret'.op = "get_reward" => UNCHANGED <<agent, config, files>>]_vars

\* The death check has won over the food: the snake has collided on a move
\* onto the food, and the reward is -10.
C3_DeathBeforeFood ==
    /\ ret.op = "get_reward"
    /\ game.snake.next = game.food
    /\ game.snake.collided
    /\ ret.value = -10

-----------------------------------------------------------------------------
\* Features.

\* C6: for a head and a food on the board, get_state returns 14 values in
\* the order rel food x, rel food y, dir up/down/left/right, wall
\* up/down/left/right, body up/down/left/right: the relative food values in
\* [-1, 1], the wall distances in [0, 1], the direction flags 0/1 with
\* exactly one set, each body flag 0/1 and set exactly when a body segment is
\* in the head's column above / below it or in its row left / right of it.
\* A second call on the same inputs returns the same vector, and a call
\* changes nothing of the agent.
C6_StateVector ==
    /\ [](ret.op = "get_state" =>
            LET v == ret.value
                hx == game.snake.head[1]
                hy == game.snake.head[2]
                w == game.board.width
                h == game.board.height
                body == game.snake.body
                segs == 1 .. Len(body)
            IN  /\ Len(v) = 14
                /\ v[1] = <<game.food[1] - hx, w>>
                /\ v[2] = <<game.food[2] - hy, h>>
                /\ \A i \in 1 .. 2 : -v[i][2] <= v[i][1] /\ v[i][1] <= v[i][2]
                /\ \A i \in 3 .. 6 : v[i] \in {0, 1}
                /\ v[3] = 1 <=> game.snake.direction = "UP"
                /\ v[4] = 1 <=> game.snake.direction = "DOWN"
                /\ v[5] = 1 <=> game.snake.direction = "LEFT"
                /\ v[6] = 1 <=> game.snake.direction = "RIGHT"
                /\ v[3] + v[4] + v[5] + v[6] = 1
                /\ v[7] = <<hy, h>>
                /\ v[8] = <<h - hy, h>>
                /\ v[9] = <<hx, w>>
                /\ v[10] = <<w - hx, w>>
                /\ \A i \in 7 .. 10 : 0 <= v[i][1] /\ v[i][1] <= v[i][2]
                /\ \A i \in 11 .. 14 : v[i] \in {0, 1}
                /\ v[11] = 1 <=> \E i \in segs : body[i][1] = hx /\ body[i][2] < hy
                /\ v[12] = 1 <=> \E i \in segs : body[i][1] = hx /\ body[i][2] > hy
                /\ v[13] = 1 <=> \E i \in segs : body[i][2] = hy /\ body[i][1] < hx
                /\ v[14] = 1 <=> \E i \in segs : body[i][2] = hy /\ body[i][1] > hx)
    /\ [][ret.op = "get_state" /\ ret'.op = "get_state" => ret' = ret]_vars
    /\ [][ret'.op = "get_state" => UNCHANGED <<agent, config, files>>]_vars

\* get_state has seen a body of two segments, one above the head and one to
\* its left, and a food away from the head.
C6_BodyAboveAndLeft ==
    /\ ret.op = "get_state"
    /\ Len(game.snake.body) = 2
    /\ ret.value[11] = 1 /\ ret.value[12] = 0
    /\ ret.value[13] = 1 /\ ret.value[14] = 0
    /\ game.food # game.snake.head

-----------------------------------------------------------------------------
\* Action selection.

\* C5: choose_action returns an index of the action space and changes
\* nothing of the agent.  It explores exactly when the draw is below the
\* effective epsilon, which is the explicit argument when one is given (0.0
\* included) and the agent's epsilon otherwise; exploring returns the random
\* index, exploiting an index of the largest Q-value of the state.  So with
\* epsilon 1.0 it always explores and with 0.0 it never does.
C5_EpsilonGreedy ==
    /\ [](ret.op = "choose_action" =>
            LET eff == IF ret.arg = None THEN epsilon ELSE ret.arg[1]
                q == Forward(params, ret.state)
            IN  /\ ret.value \in 0 .. (ActionSpaceSize - 1)
                /\ ret.explored <=> ret.draw < eff
                /\ ret.explored => ret.value = ret.rnd
                /\ ~ret.explored =>
                      /\ \A a \in Actions : q[a] <= q[ret.value]
                      /\ \A a \in Actions : a < ret.value => q[a] < q[ret.value]
                /\ eff = EpsOne => ret.explored
                /\ eff = 0 => ~ret.explored)
    /\ [][ret'.op = "choose_action" => UNCHANGED <<agent, config, files>>]_vars

\* An explicit epsilon of 0.0 has overridden the agent's own epsilon: the
\* draw was below self.epsilon, yet the action returned is the greedy one and
\* not the random index.
C5_ExplicitZero ==
    /\ ret.op = "choose_action"
    /\ ret.arg = <<0>>
    /\ ret.draw < epsilon
    /\ ~ret.explored
    /\ ret.value # ret.rnd

-----------------------------------------------------------------------------
\* Training.

\* C4: a call of train_long_memory on a memory of fewer than batch_size
\* transitions returns having changed neither the parameters nor the memory
\* nor epsilon; on a memory of at least batch_size transitions it trains on
\* batch_size distinct positions of the memory and leaves the memory as it
\* was.
C4_LongMemoryGuard ==
    [][ret'.op = "train_long_memory" =>
          IF Len(memory) < batch_size
          THEN /\ ~ret'.trained
               /\ params' = params
               /\ memory' = memory
               /\ epsilon' = epsilon
          ELSE /\ ret'.trained
               /\ ret'.mini_batch \subseteq 1 .. Len(memory)
               /\ Cardinality(ret'.mini_batch) = batch_size
               /\ memory' = memory
               /\ epsilon' = epsilon]_vars

\* train_long_memory has returned early on a memory that holds a transition
\* but fewer than batch_size, after an earlier training step.
C4_ReturnedEarly ==
    /\ ret.op = "train_long_memory"
    /\ ~ret.trained
    /\ 0 < Len(memory) /\ Len(memory) < batch_size
    /\ steps > 0

\* C9: under the same parameters, the two training routines give every
\* transition the same target for the action taken: the reward when done, the
\* reward plus gamma times the largest Q-value of next_state otherwise; and
\* the target vector of train_short_memory is the current Q-vector at every
\* other index.
C9_SameTarget ==
    \A tr \in Transitions :
        LET best == MaxQ(Forward(params, tr.next_state))
            expected == IF tr.done
                        THEN RewardTensor(tr.reward)
                        ELSE RewardTensor(tr.reward) + (GammaNum * best) \div GammaDen
        IN  /\ TargetShort(params, tr) = expected
            /\ TargetLong(params, tr) = expected
            /\ TargetVector(params, tr)[tr.action] = expected
            /\ \A a \in Actions :
                  a # tr.action =>
                      TargetVector(params, tr)[a] = Forward(params, tr.state)[a]

\* train_long_memory has trained on a batch that holds a terminal transition
\* whose next_state has a non-zero best Q-value (the case in which the
\* factor for done decides the target), after an earlier training step.
C9_TerminalInBatch ==
    /\ ret.op = "train_long_memory"
    /\ ret.trained
    /\ steps > 1
    /\ \E k \in ret.mini_batch :
          /\ memory[k].done
          /\ MaxQ(Forward(params, memory[k].next_state)) # 0

\* C10: the gradient the optimizer step of train_long_memory applies is the
\* gradient of that call's batch loss alone.
C10_LongStepUsesBatchGradient ==
    ret.op = "train_long_memory" /\ ret.trained => ret.applied = ret.loss_grad

-----------------------------------------------------------------------------
\* Who changes the parameters.

\* C7 as stated: only train_short_memory and train_long_memory change the
\* parameters.
C7_OnlyTrainingChangesParams ==
    [][params' # params =>
          ret'.op \in {"train_short_memory", "train_long_memory"}]_vars

\* C7, amended: the parameters change only in train_short_memory, in a
\* train_long_memory that finds at least batch_size transitions, and in a
\* load_model that finds its file; choose_action, remember, decay_epsilon,
\* save_model, get_state, get_reward and the other calls of train_long_memory
\* and load_model leave them as they were.
C7_OnlyTrainingAndLoadChangeParams ==
    [][params' # params =>
          \/ ret'.op = "train_short_memory"
          \/ ret'.op = "train_long_memory" /\ Len(memory) >= batch_size
          \/ ret'.op = "load_model" /\ files[ret'.filename] # NoFile]_vars

\* load_model has found the file that save_model wrote before a training
\* step, and has put the untrained parameters back.
C7_LoadedOverTrained ==
    /\ ret.op = "load_model"
    /\ ret.found
    /\ steps > 0
    /\ params \in InitParams

-----------------------------------------------------------------------------
\* Persistence.

\* C8: load_model of a path without a file returns normally, reports that no
\* saved model was found and changes nothing of the agent; load_model of a
\* path that save_model wrote sets the parameters to the ones saved, so that
\* the greedy action of the loading agent is that of the saving agent in
\* every state.
C8_LoadModel ==
    /\ [](ret.op = "load_model" =>
            /\ ~ret.raised
            /\ ret.found <=> saved[ret.filename] # None
            /\ ~ret.found => ret.printed = "No saved model found. Starting fresh."
            /\ ret.found =>
                  /\ params = saved[ret.filename][1]
                  /\ \A s \in States :
                        ArgMax(Forward(params, s))
                            = ArgMax(Forward(saved[ret.filename][1], s)))
    /\ [][ret'.op = "load_model" /\ saved[ret'.filename] = None =>
              UNCHANGED <<agent, config, files>>]_vars

\* load_model has restored saved parameters over trained ones: the file was
\* written before any training, the agent has trained since.
C8_RoundTrip ==
    /\ ret.op = "load_model"
    /\ ret.found
    /\ steps = MaxTrain
    /\ ~training
    /\ saved[ret.filename][1] \in InitParams
    /\ grad # ZeroGrad

====
